---- MODULE Spec2Model ----
(***************************************************************************)
(* Model of src/llamaindex_agent/main.py: the MultiAgentSystem session     *)
(* (startup sequence, REPL, model switch) and its three tool functions.    *)
(* Python strings are sequences of one-character strings, so that lower(), *)
(* the `in` substring test, startswith, split and strip are computed.      *)
(***************************************************************************)
EXTENDS Integers, Sequences, FiniteSets, TLC

(* ------------------------------ bounds --------------------------------- *)
\* largest absolute value of a calculator operand
MaxOperand == 2
\* number of fragments a web query is assembled from
MaxFrag == 2
\* number of 'cambiar' commands in one session
MaxSwitches == 1

(* --------------------------- Python strings ---------------------------- *)
UpperChars == <<"A","B","C","D","E","F","G","H","I","J","K","L","M","N","O","P","Q","R","S","T","U","V","W","X","Y","Z">>
LowerChars == <<"a","b","c","d","e","f","g","h","i","j","k","l","m","n","o","p","q","r","s","t","u","v","w","x","y","z">>

\* str.lower() on one character
LowerChar(c) ==
    IF \E i \in 1..26 : UpperChars[i] = c
    THEN LowerChars[CHOOSE i \in 1..26 : UpperChars[i] = c]
    ELSE c

\* str.lower()
Lower(s) == [i \in 1..Len(s) |-> LowerChar(s[i])]

\* does needle occur in hay starting at position p
MatchAt(needle, hay, p) ==
    /\ p + Len(needle) - 1 <= Len(hay)
    /\ \A j \in 1..Len(needle) : hay[p + j - 1] = needle[j]

RECURSIVE ScanFrom(_, _, _)
ScanFrom(needle, hay, p) ==
    IF p + Len(needle) - 1 > Len(hay) THEN FALSE
    ELSE IF MatchAt(needle, hay, p) THEN TRUE
    ELSE ScanFrom(needle, hay, p + 1)

\* Python `needle in hay` for strings
StrIn(needle, hay) == ScanFrom(needle, hay, 1)

\* str.startswith
StartsWith(s, prefix) == MatchAt(prefix, s, 1)

RECURSIVE LStrip(_)
LStrip(s) == IF Len(s) > 0 /\ s[1] = " " THEN LStrip(Tail(s)) ELSE s

RECURSIVE RStrip(_)
RStrip(s) ==
    IF Len(s) > 0 /\ s[Len(s)] = " " THEN RStrip(SubSeq(s, 1, Len(s) - 1)) ELSE s

\* str.strip()
Strip(s) == RStrip(LStrip(s))

RECURSIVE FirstSpace(_, _)
FirstSpace(s, p) ==
    IF p > Len(s) THEN 0 ELSE IF s[p] = " " THEN p ELSE FirstSpace(s, p + 1)

\* s.split(" ", 1)[1]; the caller has checked that s contains a space
SplitRest(s) == SubSeq(s, FirstSpace(s, 1) + 1, Len(s))

\* sep.join(parts) over a sequence of tokens
RECURSIVE JoinTokens(_, _)
JoinTokens(parts, sep) ==
    IF Len(parts) = 0 THEN << >>
    ELSE IF Len(parts) = 1 THEN << parts[1] >>
    ELSE << parts[1], sep >> \o JoinTokens(Tail(parts), sep)

(* ------------------------ outcome of a call ---------------------------- *)
\* a call either returns a value or raises; exc names the exception class
Returned(v) == [raised |-> FALSE, exc |-> "none", value |-> v]
Raised(e) == [raised |-> TRUE, exc |-> e, value |-> [head |-> "none", toks |-> << >>]]

\* a returned Python str: a fixed message (head) followed by its tokens
Str(h, t) == [head |-> h, toks |-> t]

(* --------------------------- calculadora ------------------------------- *)
op_suma == <<"s","u","m","a">>
op_resta == <<"r","e","s","t","a">>
op_multiplicacion == <<"m","u","l","t","i","p","l","i","c","a","c","i","o","n">>
op_division == <<"d","i","v","i","s","i","o","n">>
op_potencia == <<"p","o","t","e","n","c","i","a">>
op_raiz == <<"r","a","i","z">>
op_modulo == <<"m","o","d","u","l","o">>
op_resto == <<"r","e","s","t","o">>

Abs(n) == IF n < 0 THEN -n ELSE n

RECURSIVE Gcd(_, _)
Gcd(m, n) == IF n = 0 THEN m ELSE Gcd(n, m % n)

\* a number as printed in the result: n/d in lowest terms, or a root
Num(n, d) ==
    LET g == Gcd(Abs(n), Abs(d))
        s == IF d < 0 THEN -1 ELSE 1
    IN  [t |-> "num", n |-> (s * n) \div g, d |-> (s * d) \div g]

RECURSIVE IPow(_, _)
IPow(a, k) == IF k = 0 THEN 1 ELSE a * IPow(a, k - 1)

\* Python a % b for b # 0: the result has the sign of the divisor
PyMod(a, b) == IF b > 0 THEN a % b ELSE -((-a) % (-b))

\* a ** b for an integral exponent
PyPow(a, b) ==
    IF b >= 0 THEN Returned(Num(IPow(a, b), 1))
    ELSE IF a = 0 THEN Raised("ZeroDivisionError")
    ELSE Returned(Num(1, IPow(a, -b)))

\* a ** (1/b): 1/b raises for b = 0, 0 ** negative raises, a root of a
\* negative number with a non-integral exponent is a complex number
PyRoot(a, b) ==
    IF b = 0 THEN Raised("ZeroDivisionError")
    ELSE IF b = 1 THEN Returned(Num(a, 1))
    ELSE IF b = -1 THEN (IF a = 0 THEN Raised("ZeroDivisionError")
                         ELSE Returned(Num(1, a)))
    ELSE IF a = 0 /\ b < 0 THEN Raised("ZeroDivisionError")
    ELSE IF a < 0 THEN Returned([t |-> "complex", n |-> a, d |-> b])
    ELSE Returned([t |-> "root", n |-> a, d |-> b])

\* the string "a <sym> b = <val>"
CalcStr(sym, a, b, val) == [head |-> "a op b = resultado", toks |-> << >>,
                            sym |-> sym, a |-> a, b |-> b, val |-> val]

\* an error or information string of the calculator
CalcMsg(h) == [head |-> h, toks |-> << >>,
               sym |-> "", a |-> 0, b |-> 0, val |-> Num(0, 1)]

\* CalcBody without the operand checks of 'division' and 'raiz'
CalcBodySinValidar(operacion, a, b) ==
    LET o == Lower(operacion) IN
    IF o = op_suma THEN Returned(CalcStr("+", a, b, Num(a + b, 1)))
    ELSE IF o = op_resta THEN Returned(CalcStr("-", a, b, Num(a - b, 1)))
    ELSE IF o = op_multiplicacion THEN Returned(CalcStr("*", a, b, Num(a * b, 1)))
    ELSE IF o = op_division THEN
        IF b = 0 THEN Raised("ZeroDivisionError")
        ELSE Returned(CalcStr("/", a, b, Num(a, b)))
    ELSE IF o = op_potencia THEN
        LET p == PyPow(a, b) IN
        IF p.raised THEN p ELSE Returned(CalcStr("^", a, b, p.value))
    ELSE IF o = op_raiz THEN
        LET r == PyRoot(a, b) IN
        IF r.raised THEN r ELSE Returned(CalcStr("raiz", a, b, r.value))
    ELSE IF o = op_modulo \/ o = op_resto THEN
        IF b = 0 THEN Raised("ZeroDivisionError")
        ELSE Returned(CalcStr("%", a, b, Num(PyMod(a, b), 1)))
    ELSE Returned(CalcMsg("Operacion no reconocida. Opciones validas"))

\* the body of the try block of calculadora
CalcBody(operacion, a, b) ==
    LET o == Lower(operacion) IN
    IF o = op_suma THEN Returned(CalcStr("+", a, b, Num(a + b, 1)))
    ELSE IF o = op_resta THEN Returned(CalcStr("-", a, b, Num(a - b, 1)))
    ELSE IF o = op_multiplicacion THEN Returned(CalcStr("*", a, b, Num(a * b, 1)))
    ELSE IF o = op_division THEN
        IF b = 0 THEN Returned(CalcMsg("Error: No se puede dividir por cero"))
        ELSE Returned(CalcStr("/", a, b, Num(a, b)))
    ELSE IF o = op_potencia THEN
        LET p == PyPow(a, b) IN
        IF p.raised THEN p ELSE Returned(CalcStr("^", a, b, p.value))
    ELSE IF o = op_raiz THEN
        IF a < 0 /\ PyMod(b, 2) = 0
        THEN Returned(CalcMsg("Error: No se puede calcular raiz par de un numero negativo"))
        ELSE LET r == PyRoot(a, b) IN
             IF r.raised THEN r ELSE Returned(CalcStr("raiz", a, b, r.value))
    ELSE IF o = op_modulo \/ o = op_resto THEN
        IF b = 0 THEN Raised("ZeroDivisionError")
        ELSE Returned(CalcStr("%", a, b, Num(PyMod(a, b), 1)))
    ELSE Returned(CalcMsg("Operacion no reconocida. Opciones validas"))

\* calculadora without its except clause
calculadoraSinExcept(operacion, a, b) == CalcBody(operacion, a, b)

\* calculadora: the try block, and the except clause that turns every
\* exception into an error string
calculadora(operacion, a, b) ==
    LET r == CalcBody(operacion, a, b) IN
    IF r.raised THEN Returned(CalcMsg("Error en la calculadora")) ELSE r

(* ------------------------ buscar_web_simulada -------------------------- *)
kw_python == <<"p","y","t","h","o","n">>
kw_javascript == <<"j","a","v","a","s","c","r","i","p","t">>
kw_llama_index == <<"l","l","a","m","a"," ","i","n","d","e","x">>
kw_agentes == <<"a","g","e","n","t","e","s">>
kw_rag == <<"r","a","g">>
kw_ollama == <<"o","l","l","a","m","a">>
kw_phi == <<"p","h","i">>
kw_llama == <<"l","l","a","m","a">>
kw_mistral == <<"m","i","s","t","r","a","l">>
kw_gemma == <<"g","e","m","m","a">>
kw_cpu == <<"c","p","u">>
kw_gpu == <<"g","p","u">>
kw_multiagente == <<"m","u","l","t","i","a","g","e","n","t","e">>

\* the keys of base_conocimiento in insertion (iteration) order
base_keywords == << kw_python, kw_javascript, kw_llama_index, kw_agentes,
                    kw_rag, kw_ollama, kw_phi, kw_llama, kw_mistral,
                    kw_gemma, kw_cpu, kw_gpu, kw_multiagente >>

\* the values of base_conocimiento, one token per fact sentence
base_facts == << "fact:python", "fact:javascript", "fact:llama index",
                 "fact:agentes", "fact:rag", "fact:ollama", "fact:phi",
                 "fact:llama", "fact:mistral", "fact:gemma", "fact:cpu",
                 "fact:gpu", "fact:multiagente" >>

\* WebLoop matching the keyword against the query as typed, not lowered
RECURSIVE WebLoopCaseSensitive(_, _, _)
WebLoopCaseSensitive(query, i, resultados) ==
    IF i > Len(base_keywords) THEN resultados
    ELSE WebLoopCaseSensitive(query, i + 1,
                 IF StrIn(Lower(base_keywords[i]), query)
                 THEN Append(resultados, base_facts[i])
                 ELSE resultados)

\* the for loop over base_conocimiento.items(), from entry i on
RECURSIVE WebLoop(_, _, _)
WebLoop(query, i, resultados) ==
    IF i > Len(base_keywords) THEN resultados
    ELSE WebLoop(query, i + 1,
                 IF StrIn(Lower(base_keywords[i]), Lower(query))
                 THEN Append(resultados, base_facts[i])
                 ELSE resultados)

buscar_web_simulada(query) ==
    LET resultados == WebLoop(query, 1, << >>) IN
    IF Len(resultados) = 0
    THEN Returned(Str("No se encontro informacion sobre", query))
    ELSE Returned(Str("", JoinTokens(resultados, "\n")))

(* ------------------------- buscar_conocimiento ------------------------- *)
\* similarity_top_k of the retriever built by crear_indice
similarity_top_k == 2

\* the chunk the simulated retriever returns: a dict, not a node object
stub_chunk == [py |-> "dict", text |-> "No se pudo crear un indice real, esta es una respuesta simulada."]

\* the texts a real retriever can return, as node objects with a text attribute
NodeTexts == {"chunk:python.txt"}
Nodes == {[py |-> "node", text |-> t] : t \in NodeTexts}

\* what a real retriever's retrieve(query) can do: raise, or return at most
\* similarity_top_k nodes
RealRetrieveOutcomes ==
    {Raised("Exception")} \cup
    {Returned(s) : s \in UNION {[1..n -> Nodes] : n \in 0..similarity_top_k}}

\* recuperador_simulado(query)
recuperador_simulado(query) == Returned(<< stub_chunk >>)

\* what self.recuperador.retrieve(query) can do for the retriever in place
RetrieveOutcomes(rec, query) ==
    IF rec = "stub" THEN {recuperador_simulado(query)}
    ELSE IF rec = "real" THEN RealRetrieveOutcomes
    ELSE {Raised("AttributeError")}

\* node.text: an attribute of a node object, an AttributeError on a dict
TextAttr(node) ==
    IF node.py = "node" THEN Returned(node.text) ELSE Raised("AttributeError")

\* buscar_conocimiento, given what the retrieve call did
buscar_conocimiento(resultados) ==
    IF resultados.raised
    THEN Returned(Str("Error al buscar en la base de conocimientos", << >>))
    ELSE IF Len(resultados.value) = 0
    THEN Returned(Str("No se encontro informacion relevante en la base de conocimientos.", << >>))
    ELSE IF \E i \in 1..Len(resultados.value) : TextAttr(resultados.value[i]).raised
    THEN Returned(Str("Error al buscar en la base de conocimientos", << >>))
    ELSE Returned(Str("", JoinTokens([i \in 1..Len(resultados.value) |->
                                        TextAttr(resultados.value[i]).value], "\n\n")))

(* ------------------------- the model runtime --------------------------- *)
m_phi == <<"p","h","i">>
m_phi3 == <<"p","h","i","3">>
m_llama3 == <<"l","l","a","m","a","3">>
m_mistral == <<"m","i","s","t","r","a","l">>
m_gemma == <<"g","e","m","m","a">>
m_nope == <<"n","o","p","e">>

\* main: modelos_disponibles and modelo_predeterminado
modelos_disponibles == << m_phi, m_llama3, m_mistral, m_gemma >>
modelo_predeterminado == m_phi3

\* the order in which the runtime lists its models
ListOrder == << m_phi3, m_phi, m_mistral, m_nope >>

\* stdout of `ollama list`: a header line and one "<name>:latest" line per model
RECURSIVE ListLines(_, _)
ListLines(inst, i) ==
    IF i > Len(ListOrder) THEN << >>
    ELSE (IF ListOrder[i] \in inst
          THEN ListOrder[i] \o <<":","l","a","t","e","s","t","\n">>
          ELSE << >>) \o ListLines(inst, i + 1)

ListStdout(inst) == <<"N","A","M","E"," ","I","D","\n">> \o ListLines(inst, 1)

\* verificar_modelo looking for the exact name among the runtime's models
verificar_modelo_exacto(name, inst, listOut, pullOut) ==
    IF listOut = "raise"
    THEN [ret |-> FALSE, installed |-> inst, pulls |-> << >>,
          msg |-> "Error al verificar/descargar el modelo"]
    ELSE IF listOut = "ok" /\ name \in inst
    THEN [ret |-> TRUE, installed |-> inst, pulls |-> << >>,
          msg |-> "Modelo ya esta disponible"]
    ELSE IF pullOut = "raise"
    THEN [ret |-> FALSE, installed |-> inst, pulls |-> << name >>,
          msg |-> "Error al verificar/descargar el modelo"]
    ELSE IF pullOut = "fail"
    THEN [ret |-> FALSE, installed |-> inst, pulls |-> << name >>,
          msg |-> "Error al descargar el modelo"]
    ELSE [ret |-> TRUE, installed |-> inst \cup {name}, pulls |-> << name >>,
          msg |-> "Modelo descargado correctamente"]
\* verificar_modelo. listOut is what `ollama list` did ("ok", "rc_nonzero":
\* it ran and printed nothing, "raise": subprocess.run raised), pullOut what
\* `ollama pull` did ("ok": exit code 0, "fail": another exit code, "raise").
\* Returns the result, the runtime's models and the pulls issued.
verificar_modelo(name, inst, listOut, pullOut) ==
    IF listOut = "raise"
    THEN [ret |-> FALSE, installed |-> inst, pulls |-> << >>,
          msg |-> "Error al verificar/descargar el modelo"]
    ELSE IF StrIn(name, IF listOut = "ok" THEN ListStdout(inst) ELSE << >>)
    THEN [ret |-> TRUE, installed |-> inst, pulls |-> << >>,
          msg |-> "Modelo ya esta disponible"]
    ELSE IF pullOut = "raise"
    THEN [ret |-> FALSE, installed |-> inst, pulls |-> << name >>,
          msg |-> "Error al verificar/descargar el modelo"]
    ELSE IF pullOut = "fail"
    THEN [ret |-> FALSE, installed |-> inst, pulls |-> << name >>,
          msg |-> "Error al descargar el modelo"]
    ELSE [ret |-> TRUE, installed |-> inst \cup {name}, pulls |-> << name >>,
          msg |-> "Modelo descargado correctamente"]

\* The outcomes of the subprocess calls verificar_modelo makes: `ollama
\* pull` runs only when `ollama list` returned and does not show the name
ListOuts == {"ok", "rc_nonzero", "raise"}
PullOuts == {"ok", "fail", "raise"}

PullOutsFor(name, inst, listOut) ==
    IF listOut # "raise" /\ ~verificar_modelo(name, inst, listOut, "fail").ret
    THEN PullOuts ELSE {"ok"}

(* ----------------------------- data_dir -------------------------------- *)
\* the keys of examples in crear_documentos_ejemplo, in insertion order
examples == << "python.txt", "agents.txt", "rag.txt", "llms.txt" >>

\* a file is a pair <<name, content>>; open(name, "w") replaces the file
WriteFile(fs, name, content) ==
    {f \in fs : f[1] # name} \cup {<< name, content >>}

RECURSIVE WriteExamples(_, _, _)
WriteExamples(fs, i, failAt) ==
    IF i > Len(examples) THEN [raised |-> FALSE, files |-> fs]
    ELSE IF i = failAt THEN [raised |-> TRUE, files |-> fs]
    ELSE WriteExamples(WriteFile(fs, examples[i], "example"), i + 1, failAt)

\* crear_documentos_ejemplo without the test that data_dir is empty
crear_documentos_siempre(fs, failAt) ==
    IF failAt = 0 THEN [raised |-> TRUE, files |-> fs]
    ELSE WriteExamples(fs, 1, failAt)

\* crear_documentos_ejemplo. failAt = 0: os.listdir raises; failAt = k in
\* 1..4: opening the k-th example file raises; otherwise no I/O error.
crear_documentos_ejemplo(fs, failAt) ==
    IF failAt = 0 THEN [raised |-> TRUE, files |-> fs]
    ELSE IF fs = {} THEN WriteExamples(fs, 1, failAt)
    ELSE [raised |-> FALSE, files |-> fs]

(* --------------------------- object store ------------------------------ *)
\* Objects the program constructs (model clients, indexes, tools, agents)
\* are entries of objs; a reference is an index into objs, None is 0.
None == 0

Obj(cls, role, model, llmRef, toolRefs) ==
    [cls |-> cls, role |-> role, model |-> model, llm |-> llmRef, tools |-> toolRefs]

\* configurar_modelo: Ollama(...) either raises, and nothing is assigned,
\* or returns the client that self.llm and Settings.llm are set to
configurar_modelo(st, name, ok) ==
    IF ok
    THEN [ret |-> TRUE,
          objs |-> Append(st.objs, Obj("Ollama", "llm", name, None, {})),
          llm |-> Len(st.objs) + 1, settings_llm |-> Len(st.objs) + 1]
    ELSE [ret |-> FALSE, objs |-> st.objs, llm |-> st.llm,
          settings_llm |-> st.settings_llm]

\* crear_indice: the index and its retriever, or the simulated retriever
crear_indice(st, ok) ==
    IF ok
    THEN [ret |-> TRUE,
          objs |-> Append(st.objs, Obj("VectorStoreIndex", "indice", << >>, None, {})),
          indice |-> Len(st.objs) + 1, recuperador |-> "real"]
    ELSE [ret |-> FALSE, objs |-> st.objs, indice |-> st.indice,
          recuperador |-> "stub"]

\* definir_herramientas: three new FunctionTool objects
definir_herramientas(st) ==
    LET n == Len(st.objs) IN
    [objs |-> st.objs \o << Obj("FunctionTool", "buscador_conocimiento", << >>, None, {}),
                            Obj("FunctionTool", "calculadora", << >>, None, {}),
                            Obj("FunctionTool", "buscador_web", << >>, None, {}) >>,
     conocimiento_tool |-> n + 1, calculadora_tool |-> n + 2, web_tool |-> n + 3]

\* the five constructor calls of crear_agentes, in order
AgentStages == 5

\* crear_agentes clearing self.coordinador before it rebuilds the agents
crear_agentes_reset(st, conocimiento_tool, calculadora_tool, web_tool, failAt) ==
    LET n == Len(st.objs)
        built == << Obj("ReActAgent", "investigador", << >>, st.llm,
                        {conocimiento_tool, web_tool}),
                    Obj("ReActAgent", "analista", << >>, st.llm, {calculadora_tool}),
                    Obj("FunctionTool", "investigador", << >>, None, {n + 1}),
                    Obj("FunctionTool", "analista", << >>, None, {n + 2}),
                    Obj("ReActAgent", "coordinador", << >>, st.llm, {n + 3, n + 4}) >>
    IN  IF failAt > AgentStages
        THEN [ret |-> TRUE, objs |-> st.objs \o built, coordinador |-> n + 5]
        ELSE [ret |-> FALSE, objs |-> st.objs, coordinador |-> None]

\* crear_agentes pointing the agents it already has at the new client
\* instead of building new ones
crear_agentes_in_place(st, conocimiento_tool, calculadora_tool, web_tool, failAt) ==
    LET n == Len(st.objs)
        built == << Obj("ReActAgent", "investigador", << >>, st.llm,
                        {conocimiento_tool, web_tool}),
                    Obj("ReActAgent", "analista", << >>, st.llm, {calculadora_tool}),
                    Obj("FunctionTool", "investigador", << >>, None, {n + 1}),
                    Obj("FunctionTool", "analista", << >>, None, {n + 2}),
                    Obj("ReActAgent", "coordinador", << >>, st.llm, {n + 3, n + 4}) >>
    IN  IF failAt <= AgentStages
        THEN [ret |-> FALSE, objs |-> st.objs, coordinador |-> st.coordinador]
        ELSE IF st.coordinador = None
        THEN [ret |-> TRUE, objs |-> st.objs \o built, coordinador |-> n + 5]
        ELSE [ret |-> TRUE,
              objs |-> [i \in 1..n |->
                          IF st.objs[i].cls = "ReActAgent"
                          THEN [st.objs[i] EXCEPT !.llm = st.llm]
                          ELSE st.objs[i]],
              coordinador |-> st.coordinador]

\* crear_agentes. failAt in 1..AgentStages: that constructor call raises;
\* failAt > AgentStages: none raises. self.coordinador is assigned by the
\* last statement of the try block only; the agents built before a call
\* that raises are locals of the method and are gone when it returns.
crear_agentes(st, conocimiento_tool, calculadora_tool, web_tool, failAt) ==
    LET n == Len(st.objs)
        built == << Obj("ReActAgent", "investigador", << >>, st.llm,
                        {conocimiento_tool, web_tool}),
                    Obj("ReActAgent", "analista", << >>, st.llm, {calculadora_tool}),
                    Obj("FunctionTool", "investigador", << >>, None, {n + 1}),
                    Obj("FunctionTool", "analista", << >>, None, {n + 2}),
                    Obj("ReActAgent", "coordinador", << >>, st.llm, {n + 3, n + 4}) >>
    IN  IF failAt > AgentStages
        THEN [ret |-> TRUE, objs |-> st.objs \o built, coordinador |-> n + 5]
        ELSE [ret |-> FALSE, objs |-> st.objs, coordinador |-> st.coordinador]

(* ------------------------------ state ---------------------------------- *)
VARIABLES
    pc,           \* where main is: a startup state, "demo", "repl", ..., "exited"
    argv,         \* sys.argv[1:]
    model_name,   \* self.model_name
    llm,          \* self.llm
    settings_llm, \* Settings.llm
    indice,       \* self.indice
    recuperador,  \* self.recuperador: "none", "real" or "stub"
    coordinador,  \* self.coordinador
    herramientas, \* the tools definir_herramientas returned to inicializar
    objs,         \* the objects constructed so far
    files,        \* the files of data_dir
    files0,       \* the files of data_dir when the process started
    installed,    \* the models the runtime lists
    steps,        \* the startup steps run so far with their results, in order
    init_result,  \* what inicializar returned: "none", "true", "false"
    pending,      \* the exception unwinding to the entry point, or "none"
    exit_status,  \* the exit status of the process, -1 while it runs
    last,         \* the last REPL iteration
    printed,      \* the messages printed by the last step
    nswitch,      \* number of 'cambiar' commands so far
    tool_call,    \* the tool call made during the last step, and its result
    typed,        \* the line input() returned in the last REPL iteration,
                  \* << >> when it returned none
    verif_call    \* a call of verificar_modelo on its own: its inputs, the
                  \* outcomes of its subprocess calls and its result

vars == << pc, argv, model_name, llm, settings_llm, indice, recuperador,
           coordinador, herramientas, objs, files, files0, installed, steps,
           init_result, pending, exit_status, last, printed, nswitch, tool_call, typed,
           verif_call >>

\* the session fields the construction operators read
Session == [objs |-> objs, llm |-> llm, settings_llm |-> settings_llm,
            indice |-> indice, coordinador |-> coordinador]

NoCall == [tool |-> "none"]

\* one REPL iteration as kept in last
Event(kind, outcome, before, coord, modelo) ==
    [kind |-> kind, outcome |-> outcome, before |-> before, coord |-> coord,
     modelo |-> modelo]

\* before any REPL iteration
NoEvent == Event("none", "none", None, None, << >>)

flag_ejemplos == <<"-","-","e","j","e","m","p","l","o","s">>

\* command lines the process is started with
Argvs == { << >>,
           << m_mistral, <<"-","-","E","j","e","m","p","l","o","s">> >> }

\* what data_dir can hold when the process starts
InitialDirs == { {}, {<< "python.txt", "user" >>} }

\* what the runtime can list when the process starts
InitialInstalled == { {m_phi3} }

\* main: the model chosen from the command line
MainModelo(args) ==
    IF Len(args) > 0 /\ \E i \in 1..Len(modelos_disponibles) : modelos_disponibles[i] = args[1]
    THEN args[1]
    ELSE modelo_predeterminado

\* the state after MultiAgentSystem(...) was constructed by main
Init ==
    /\ argv \in Argvs
    /\ model_name = MainModelo(argv)
    /\ llm = None /\ settings_llm = None /\ indice = None
    /\ recuperador = "none" /\ coordinador = None
    /\ herramientas = << >>
    /\ objs = << >>
    /\ files \in InitialDirs /\ files0 = files
    /\ installed \in InitialInstalled
    /\ steps = << >>
    /\ init_result = "none" /\ pending = "none" /\ exit_status = -1
    /\ last = NoEvent /\ printed = {} /\ nswitch = 0
    /\ tool_call = NoCall
    /\ typed = << >>
    /\ verif_call = NoCall
    /\ pc = "created"

(* ----------------------------- startup --------------------------------- *)
\* a startup step that ran, and what the method returned: "true", "false",
\* "none" (no return value), "tools", or "raised"
Step(name, ret) == [name |-> name, ret |-> ret]

Bool(b) == IF b THEN "true" ELSE "false"

\* inicializar going on to return True after a step failed
ReturnFalseIgnored ==
    /\ init_result' = "true"
    /\ pc' = "init_returned"

\* inicializar returns False: main goes on from the return value
ReturnFalse ==
    /\ init_result' = "false"
    /\ pc' = "init_returned"

\* inicializar, first step: verificar_modelo; the call of verificar_ollama
\* before it is commented out in the source, so no bootstrap step runs.
\* A keyboard interrupt during the subprocess calls is not an Exception and
\* unwinds to the entry point.
VerificarModeloStep ==
    /\ pc = "created"
    /\ \/ \E listOut \in ListOuts :
          \E pullOut \in PullOutsFor(model_name, installed, listOut) :
            LET r == verificar_modelo(model_name, installed, listOut, pullOut) IN
            /\ steps' = Append(steps, Step("verificar_modelo", Bool(r.ret)))
            /\ installed' = r.installed
            /\ printed' = {r.msg}
            /\ IF r.ret THEN pc' = "model_verified" /\ init_result' = init_result
                        ELSE ReturnFalse
            /\ pending' = pending
       \/ /\ steps' = Append(steps, Step("verificar_modelo", "raised"))
          /\ pending' = "KeyboardInterrupt"
          /\ pc' = "unwinding"
          /\ printed' = {}
          /\ UNCHANGED << installed, init_result >>
    /\ UNCHANGED << argv, model_name, llm, settings_llm, indice, recuperador,
                    coordinador, herramientas, objs, files, files0,
                    exit_status, last, nswitch, tool_call, typed,
                    verif_call >>

\* inicializar, second step: configurar_modelo
ConfigurarModeloStep ==
    /\ pc = "model_verified"
    /\ \E ok \in BOOLEAN :
            LET r == configurar_modelo(Session, model_name, ok) IN
            /\ steps' = Append(steps, Step("configurar_modelo", Bool(r.ret)))
            /\ objs' = r.objs /\ llm' = r.llm /\ settings_llm' = r.settings_llm
            /\ printed' = {IF r.ret THEN "Modelo configurado correctamente"
                                    ELSE "Error al configurar el modelo"}
            /\ IF r.ret THEN pc' = "model_configured" /\ init_result' = init_result
                        ELSE ReturnFalse
    /\ UNCHANGED << argv, model_name, indice, recuperador, coordinador,
                    herramientas, files, files0, installed, pending,
                    exit_status, last, nswitch, tool_call, typed,
                    verif_call >>

\* inicializar, third step: crear_documentos_ejemplo, which has no except
\* clause: an I/O error unwinds through inicializar and main
CrearDocumentosStep ==
    /\ pc = "model_configured"
    /\ \E failAt \in 0..(Len(examples) + 1) :
            LET r == crear_documentos_ejemplo(files, failAt) IN
            /\ steps' = Append(steps, Step("crear_documentos_ejemplo",
                                           IF r.raised THEN "raised" ELSE "none"))
            /\ files' = r.files
            /\ IF r.raised
               THEN pending' = "Exception" /\ pc' = "unwinding" /\ printed' = {}
               ELSE /\ pending' = pending /\ pc' = "documents_ready"
                    /\ printed' = IF files = {}
                                  THEN {"Archivos de ejemplo creados correctamente"}
                                  ELSE {}
    /\ UNCHANGED << argv, model_name, llm, settings_llm, indice, recuperador,
                    coordinador, herramientas, objs, files0, installed,
                    init_result, exit_status, last, nswitch, tool_call, typed,
                    verif_call >>

\* inicializar, fourth step: crear_indice, whose result is not looked at
CrearIndiceStep ==
    /\ pc = "documents_ready"
    /\ \E ok \in BOOLEAN :
            LET r == crear_indice(Session, ok) IN
            /\ steps' = Append(steps, Step("crear_indice", Bool(r.ret)))
            /\ objs' = r.objs /\ indice' = r.indice /\ recuperador' = r.recuperador
            /\ printed' = {IF r.ret THEN "Indice creado" ELSE "Error al crear el indice"}
    /\ pc' = "index_ready"
    /\ UNCHANGED << argv, model_name, llm, settings_llm, coordinador,
                    herramientas, files, files0, installed, init_result,
                    pending, exit_status, last, nswitch, tool_call, typed,
                    verif_call >>

\* definir_herramientas called without waiting for crear_indice
DefinirHerramientasSinIndice ==
    /\ pc \in {"documents_ready", "index_ready"}
    /\ steps' = Append(steps, Step("definir_herramientas", "tools"))
    /\ LET r == definir_herramientas(Session) IN
       /\ objs' = r.objs
       /\ herramientas' = << r.conocimiento_tool, r.calculadora_tool, r.web_tool >>
    /\ printed' = {"Herramientas base creadas correctamente"}
    /\ pc' = "tools_ready"
    /\ UNCHANGED << argv, model_name, llm, settings_llm, indice, recuperador,
                    coordinador, files, files0, installed, init_result,
                    pending, exit_status, last, nswitch, tool_call, typed,
                    verif_call >>
\* inicializar, fifth step: definir_herramientas
DefinirHerramientasStep ==
    /\ pc = "index_ready"
    /\ steps' = Append(steps, Step("definir_herramientas", "tools"))
    /\ LET r == definir_herramientas(Session) IN
       /\ objs' = r.objs
       /\ herramientas' = << r.conocimiento_tool, r.calculadora_tool, r.web_tool >>
    /\ printed' = {"Herramientas base creadas correctamente"}
    /\ pc' = "tools_ready"
    /\ UNCHANGED << argv, model_name, llm, settings_llm, indice, recuperador,
                    coordinador, files, files0, installed, init_result,
                    pending, exit_status, last, nswitch, tool_call, typed,
                    verif_call >>

\* inicializar, last step: crear_agentes, then return True
CrearAgentesStep ==
    /\ pc = "tools_ready"
    /\ \E failAt \in 1..(AgentStages + 1) :
            LET r == crear_agentes(Session, herramientas[1], herramientas[2],
                                   herramientas[3], failAt) IN
            /\ steps' = Append(steps, Step("crear_agentes", Bool(r.ret)))
            /\ objs' = r.objs /\ coordinador' = r.coordinador
            /\ IF r.ret
               THEN /\ init_result' = "true" /\ pc' = "init_returned"
                    /\ printed' = {"Sistema multiagente inicializado correctamente"}
               ELSE /\ ReturnFalse
                    /\ printed' = {"Error al crear los agentes"}
    /\ UNCHANGED << argv, model_name, llm, settings_llm, indice, recuperador,
                    herramientas, files, files0, installed, pending,
                    exit_status, last, nswitch, tool_call, typed,
                    verif_call >>

\* main after inicializar returned: the demo when asked for, then the REPL;
\* or sys.exit(1)
MainDispatch ==
    /\ pc = "init_returned"
    /\ IF init_result = "true"
       THEN /\ pc' = IF Len(argv) > 1 /\ Lower(argv[2]) = flag_ejemplos
                     THEN "demo" ELSE "repl"
            /\ printed' = {}
            /\ pending' = pending
       ELSE /\ pc' = "unwinding"
            /\ pending' = "SystemExit(1)"
            /\ printed' = {"No se pudo inicializar el sistema multiagente correctamente."}
    /\ UNCHANGED << argv, model_name, llm, settings_llm, indice, recuperador,
                    coordinador, herramientas, objs, files, files0, installed,
                    steps, init_result, exit_status, last, nswitch, tool_call, typed,
                    verif_call >>

\* the entry point without the sys.exit(1) of its except Exception clause
EntryPointSinExit ==
    /\ pc \in {"unwinding", "main_returned"}
    /\ pc' = "exited"
    /\ IF pending = "KeyboardInterrupt"
       THEN exit_status' = 0 /\ printed' = {"Programa terminado por el usuario."}
       ELSE IF pending = "Exception"
       THEN exit_status' = 0 /\ printed' = {"Error inesperado"}
       ELSE IF pending = "SystemExit(1)"
       THEN exit_status' = 1 /\ printed' = {}
       ELSE exit_status' = 0 /\ printed' = {}
    /\ UNCHANGED << argv, model_name, llm, settings_llm, indice, recuperador,
                    coordinador, herramientas, objs, files, files0, installed,
                    steps, init_result, pending, last, nswitch, tool_call, typed,
                    verif_call >>

\* the entry point: main returned or an exception reached the try statement
EntryPoint ==
    /\ pc \in {"unwinding", "main_returned"}
    /\ pc' = "exited"
    /\ IF pending = "KeyboardInterrupt"
       THEN exit_status' = 0 /\ printed' = {"Programa terminado por el usuario."}
       ELSE IF pending = "Exception"
       THEN exit_status' = 1 /\ printed' = {"Error inesperado"}
       ELSE IF pending = "SystemExit(1)"
       THEN exit_status' = 1 /\ printed' = {}
       ELSE exit_status' = 0 /\ printed' = {}
    /\ UNCHANGED << argv, model_name, llm, settings_llm, indice, recuperador,
                    coordinador, herramientas, objs, files, files0, installed,
                    steps, init_result, pending, last, nswitch, tool_call, typed,
                    verif_call >>

(* ------------------------------- REPL ---------------------------------- *)
cmd_salir == <<"s","a","l","i","r">>
cmd_exit == <<"e","x","i","t">>
cmd_quit == <<"q","u","i","t">>
cmd_q == <<"q">>
cmd_ayuda == <<"a","y","u","d","a">>
cmd_help == <<"h","e","l","p">>
cmd_h == <<"h">>
cmd_qmark == <<"?">>
cmd_modelos == <<"m","o","d","e","l","o","s">>
cmd_status == <<"s","t","a","t","u","s">>
cmd_cambiar_sp == <<"c","a","m","b","i","a","r"," ">>

\* the lines typed at the prompt
Lines == { <<"s","a","l","i","r">>,
           <<"E","X","I","T">>,
           <<"q">>,
           <<"a","y","u","d","a">>,
           <<"?">>,
           <<"m","o","d","e","l","o","s">>,
           <<"S","t","a","t","u","s">>,
           <<"c","a","m","b","i","a","r"," ","p","h","i">>,
           <<"C","A","M","B","I","A","R"," "," ","n","o","p","e"," ">>,
           <<"c","a","m","b","i","a","r"," ">>,
           <<"c","a","m","b","i","a","r">>,
           <<"s","a","l","i","r"," ">>,
           <<"q","u","e"," ","e","s"," ","r","a","g">> }

\* the if/elif chain comparing the line as typed, without lower()
DispatchSinLower(consulta) ==
    LET l == consulta IN
    IF l \in {cmd_salir, cmd_exit, cmd_quit, cmd_q} THEN "salir"
    ELSE IF l \in {cmd_ayuda, cmd_help, cmd_h, cmd_qmark} THEN "ayuda"
    ELSE IF l = cmd_modelos THEN "modelos"
    ELSE IF StartsWith(l, cmd_cambiar_sp) THEN "cambiar"
    ELSE IF l = cmd_status THEN "status"
    ELSE "consulta"
\* the if/elif chain of iniciar_interfaz_consola: the branch a line takes
Dispatch(consulta) ==
    LET l == Lower(consulta) IN
    IF l \in {cmd_salir, cmd_exit, cmd_quit, cmd_q} THEN "salir"
    ELSE IF l \in {cmd_ayuda, cmd_help, cmd_h, cmd_qmark} THEN "ayuda"
    ELSE IF l = cmd_modelos THEN "modelos"
    ELSE IF StartsWith(l, cmd_cambiar_sp) THEN "cambiar"
    ELSE IF l = cmd_status THEN "status"
    ELSE "consulta"

\* responder with a bare except clause: a keyboard interrupt is returned as
\* an error string too
responder_except_todo(coord, chatOut) ==
    IF coord = None
    THEN Returned(Str("Error: El sistema multiagente no esta inicializado correctamente.", << >>))
    ELSE IF chatOut = "ok" THEN Returned(Str("respuesta", << >>))
    ELSE Returned(Str("Error al procesar la consulta", << >>))
\* responder: the coordinator's chat call returns ("ok"), raises an
\* Exception ("exception") or is interrupted from the keyboard ("interrupt")
responder(coord, chatOut) ==
    IF coord = None
    THEN Returned(Str("Error: El sistema multiagente no esta inicializado correctamente.", << >>))
    ELSE IF chatOut = "ok" THEN Returned(Str("respuesta", << >>))
    ELSE IF chatOut = "exception"
    THEN Returned(Str("Error al procesar la consulta", << >>))
    ELSE Raised("KeyboardInterrupt")

ChatOuts == {"ok", "exception", "interrupt"}

\* the 'cambiar' branch assigning model_name only after verificar_modelo
\* returned True
cambiar_verifica_antes(st, inst, nuevo_modelo, listOut, pullOut, cfgOk, failAt) ==
    LET v == verificar_modelo(nuevo_modelo, inst, listOut, pullOut)
        c == configurar_modelo(st, nuevo_modelo, cfgOk)
        st2 == [st EXCEPT !.objs = c.objs, !.llm = c.llm,
                          !.settings_llm = c.settings_llm]
        h == definir_herramientas(st2)
        st3 == [st2 EXCEPT !.objs = h.objs]
        a == crear_agentes(st3, h.conocimiento_tool, h.calculadora_tool,
                           h.web_tool, failAt)
    IN  IF ~v.ret
        THEN [model_name |-> st.objs[st.llm].model, installed |-> v.installed,
              objs |-> st.objs, llm |-> st.llm, settings_llm |-> st.settings_llm,
              coordinador |-> st.coordinador, outcome |-> "verificar_fallo",
              printed |-> {v.msg, "No se pudo cambiar al modelo"}]
        ELSE IF ~c.ret
        THEN [model_name |-> nuevo_modelo, installed |-> v.installed,
              objs |-> c.objs, llm |-> c.llm, settings_llm |-> c.settings_llm,
              coordinador |-> st.coordinador, outcome |-> "configurar_fallo",
              printed |-> {v.msg, "Error al configurar el modelo",
                           "No se pudo cambiar al modelo"}]
        ELSE [model_name |-> nuevo_modelo, installed |-> v.installed,
              objs |-> a.objs, llm |-> c.llm, settings_llm |-> c.settings_llm,
              coordinador |-> a.coordinador,
              outcome |-> IF a.ret THEN "ok" ELSE "agentes_fallo",
              printed |-> {v.msg, "Modelo configurado correctamente",
                           "Modelo cambiado correctamente",
                           "Herramientas base creadas correctamente",
                           IF a.ret THEN "Sistema multiagente creado correctamente"
                                    ELSE "Error al crear los agentes"}]
\* the 'cambiar' branch up to its continue statement: model_name is assigned,
\* then verificar_modelo and configurar_modelo, and on their success
\* definir_herramientas and crear_agentes
cambiar(st, inst, nuevo_modelo, listOut, pullOut, cfgOk, failAt) ==
    LET v == verificar_modelo(nuevo_modelo, inst, listOut, pullOut)
        c == configurar_modelo(st, nuevo_modelo, cfgOk)
        st2 == [st EXCEPT !.objs = c.objs, !.llm = c.llm,
                          !.settings_llm = c.settings_llm]
        h == definir_herramientas(st2)
        st3 == [st2 EXCEPT !.objs = h.objs]
        a == crear_agentes(st3, h.conocimiento_tool, h.calculadora_tool,
                           h.web_tool, failAt)
    IN  IF ~v.ret
        THEN [model_name |-> nuevo_modelo, installed |-> v.installed,
              objs |-> st.objs, llm |-> st.llm, settings_llm |-> st.settings_llm,
              coordinador |-> st.coordinador, outcome |-> "verificar_fallo",
              printed |-> {v.msg, "No se pudo cambiar al modelo"}]
        ELSE IF ~c.ret
        THEN [model_name |-> nuevo_modelo, installed |-> v.installed,
              objs |-> c.objs, llm |-> c.llm, settings_llm |-> c.settings_llm,
              coordinador |-> st.coordinador, outcome |-> "configurar_fallo",
              printed |-> {v.msg, "Error al configurar el modelo",
                           "No se pudo cambiar al modelo"}]
        ELSE [model_name |-> nuevo_modelo, installed |-> v.installed,
              objs |-> a.objs, llm |-> c.llm, settings_llm |-> c.settings_llm,
              coordinador |-> a.coordinador,
              outcome |-> IF a.ret THEN "ok" ELSE "agentes_fallo",
              printed |-> {v.msg, "Modelo configurado correctamente",
                           "Modelo cambiado correctamente",
                           "Herramientas base creadas correctamente",
                           IF a.ret THEN "Sistema multiagente creado correctamente"
                                    ELSE "Error al crear los agentes"}]

\* The outcomes of the constructor calls of the 'cambiar' branch:
\* configurar_modelo runs only after verificar_modelo returned True, and
\* crear_agentes only after configurar_modelo returned True
ConfigOutsFor(name, inst, listOut, pullOut) ==
    IF verificar_modelo(name, inst, listOut, pullOut).ret THEN BOOLEAN ELSE {TRUE}

FailAtsFor(name, inst, listOut, pullOut, cfgOk) ==
    IF verificar_modelo(name, inst, listOut, pullOut).ret /\ cfgOk
    THEN 1..(AgentStages + 1) ELSE {AgentStages + 1}

ReplFrame ==
    UNCHANGED << argv, indice, recuperador, herramientas, files, files0,
                 steps, init_result, pending, exit_status, verif_call >>

\* an exit synonym: break
ReplSalir ==
    /\ pc = "repl"
    /\ \E consulta \in Lines :
          /\ Dispatch(consulta) = "salir"
          /\ typed' = consulta
          /\ last' = (Event("salir", "break", coordinador, None, << >>))
    /\ printed' = {"Hasta luego!"}
    /\ pc' = "main_returned"
    /\ ReplFrame
    /\ UNCHANGED << model_name, llm, settings_llm, coordinador, objs,
                    installed, nswitch >>
    /\ tool_call' = NoCall

\* a help synonym: print the commands, continue
ReplAyuda ==
    /\ pc = "repl"
    /\ \E consulta \in Lines :
          /\ Dispatch(consulta) = "ayuda"
          /\ typed' = consulta
          /\ last' = (Event("ayuda", "continue", coordinador, None, << >>))
    /\ printed' = {"Comandos disponibles"}
    /\ pc' = "repl"
    /\ ReplFrame
    /\ UNCHANGED << model_name, llm, settings_llm, coordinador, objs,
                    installed, nswitch >>
    /\ tool_call' = NoCall

\* 'modelos': print the runtime's list, or the error of running it; continue
ReplModelos ==
    /\ pc = "repl"
    /\ \E consulta \in Lines, listOut \in ListOuts :
          /\ Dispatch(consulta) = "modelos"
          /\ typed' = consulta
          /\ last' = (Event("modelos", "continue", coordinador, None, << >>))
          /\ printed' = {IF listOut = "raise" THEN "Error al listar modelos"
                                              ELSE "Modelos disponibles en Ollama"}
    /\ pc' = "repl"
    /\ ReplFrame
    /\ UNCHANGED << model_name, llm, settings_llm, coordinador, objs,
                    installed, nswitch >>
    /\ tool_call' = NoCall

\* 'status': print the session's fields, continue
ReplStatus ==
    /\ pc = "repl"
    /\ \E consulta \in Lines :
          /\ Dispatch(consulta) = "status"
          /\ typed' = consulta
          /\ last' = (Event("status", "continue", coordinador, None, model_name))
    /\ printed' = {"Estado del sistema",
                   IF coordinador # None THEN "Sistema multiagente activo: Si"
                                         ELSE "Sistema multiagente activo: No"}
    /\ pc' = "repl"
    /\ ReplFrame
    /\ UNCHANGED << model_name, llm, settings_llm, coordinador, objs,
                    installed, nswitch >>
    /\ tool_call' = NoCall

\* 'cambiar <modelo>': switch the model, continue; a keyboard interrupt
\* during the subprocess calls ends the loop, model_name being assigned
ReplCambiar ==
    /\ pc = "repl"
    /\ nswitch < MaxSwitches
    /\ nswitch' = nswitch + 1
    /\ \E consulta \in Lines :
          /\ Dispatch(consulta) = "cambiar"
          /\ typed' = consulta
          /\ LET nuevo_modelo == Strip(SplitRest(consulta)) IN
             \/ \E listOut \in ListOuts :
                \E pullOut \in PullOutsFor(nuevo_modelo, installed, listOut) :
                \E cfgOk \in ConfigOutsFor(nuevo_modelo, installed, listOut, pullOut) :
                \E failAt \in FailAtsFor(nuevo_modelo, installed, listOut, pullOut, cfgOk) :
                   LET r == cambiar(Session, installed, nuevo_modelo, listOut,
                                    pullOut, cfgOk, failAt) IN
                   /\ model_name' = r.model_name
                   /\ installed' = r.installed
                   /\ objs' = r.objs /\ llm' = r.llm
                   /\ settings_llm' = r.settings_llm
                   /\ coordinador' = r.coordinador
                   /\ printed' = r.printed
                   /\ last' = (Event("cambiar", r.outcome, coordinador,
                                           None, nuevo_modelo))
                   /\ pc' = "repl"
             \/ /\ model_name' = nuevo_modelo
                /\ printed' = {"Hasta luego!"}
                /\ last' = (Event("cambiar", "interrupt", coordinador,
                                        None, nuevo_modelo))
                /\ pc' = "main_returned"
                /\ UNCHANGED << installed, objs, llm, settings_llm, coordinador >>
    /\ ReplFrame
    /\ tool_call' = NoCall

\* any other line: responder, print the answer, next iteration; what
\* responder raises reaches the except clauses of the loop, and a
\* KeyboardInterrupt breaks. During the chat call the agents may call
\* buscar_conocimiento.
ReplConsulta ==
    /\ pc = "repl"
    /\ \E consulta \in Lines, chatOut \in ChatOuts :
          /\ Dispatch(consulta) = "consulta"
          /\ typed' = consulta
          /\ LET r == responder(coordinador, chatOut) IN
             IF r.raised
             THEN /\ last' = (Event("consulta", r.exc, coordinador,
                                          coordinador, << >>))
                  /\ printed' = {"Hasta luego!"}
                  /\ pc' = "main_returned"
             ELSE /\ last' = (Event("consulta", r.value.head, coordinador,
                                          coordinador, << >>))
                  /\ printed' = {r.value.head}
                  /\ pc' = "repl"
          /\ \/ tool_call' = NoCall
             \/ /\ chatOut = "ok" /\ coordinador # None
                /\ \E res \in RetrieveOutcomes(recuperador, consulta) :
                      tool_call' = [tool |-> "buscar_conocimiento",
                                    recuperador |-> recuperador, res |-> res,
                                    ret |-> buscar_conocimiento(res)]
    /\ ReplFrame
    /\ UNCHANGED << model_name, llm, settings_llm, coordinador, objs,
                    installed, nswitch >>

\* a keyboard interrupt while input() waits: break
ReplInterrupt ==
    /\ pc = "repl"
    /\ last' = (Event("input", "interrupt", coordinador, None, << >>))
    /\ printed' = {"Hasta luego!"}
    /\ pc' = "main_returned"
    /\ ReplFrame
    /\ UNCHANGED << model_name, llm, settings_llm, coordinador, objs,
                    installed, nswitch >>
    /\ tool_call' = NoCall
    /\ typed' = << >>

\* input() raises an Exception (end of input): print it, next iteration
ReplInputError ==
    /\ pc = "repl"
    /\ last' = (Event("input", "error", coordinador, None, << >>))
    /\ printed' = {"Error"}
    /\ pc' = "repl"
    /\ ReplFrame
    /\ UNCHANGED << model_name, llm, settings_llm, coordinador, objs,
                    installed, nswitch >>
    /\ tool_call' = NoCall
    /\ typed' = << >>

\* ejecutar_ejemplos: three responder calls; a keyboard interrupt during a
\* chat call unwinds to the entry point
EjecutarEjemplos ==
    /\ pc = "demo"
    /\ \E outs \in [1..3 -> ChatOuts] :
          IF \E i \in 1..3 : responder(coordinador, outs[i]).raised
          THEN /\ pending' = "KeyboardInterrupt" /\ pc' = "unwinding"
               /\ printed' = {}
          ELSE /\ pending' = pending /\ pc' = "repl"
               /\ printed' = {responder(coordinador, outs[i]).value.head : i \in 1..3}
                             \cup {"Ejemplos completados"}
    /\ UNCHANGED << argv, model_name, llm, settings_llm, indice, recuperador,
                    coordinador, herramientas, objs, files, files0, installed,
                    steps, init_result, exit_status, last, nswitch, tool_call, typed,
                    verif_call >>

Next ==
    \/ VerificarModeloStep
    \/ ConfigurarModeloStep
    \/ CrearDocumentosStep
    \/ CrearIndiceStep
    \/ DefinirHerramientasStep
    \/ CrearAgentesStep
    \/ MainDispatch
    \/ EjecutarEjemplos
    \/ ReplSalir
    \/ ReplAyuda
    \/ ReplModelos
    \/ ReplStatus
    \/ ReplCambiar
    \/ ReplConsulta
    \/ ReplInterrupt
    \/ ReplInputError
    \/ EntryPoint

Spec == Init /\ [][Next]_vars

(* ------------------- the tool functions on their own ------------------- *)
\* operation names the agents pass to calculadora
Operaciones == { <<"s","u","m","a">>,
                 <<"R","e","s","t","a">>,
                 <<"m","u","l","t","i","p","l","i","c","a","c","i","o","n">>,
                 <<"d","i","v","i","s","i","o","n">>,
                 <<"D","I","V","I","S","I","O","N">>,
                 <<"D","i","v","i","s","i","o","n">>,
                 <<"p","o","t","e","n","c","i","a">>,
                 <<"r","a","i","z">>,
                 <<"R","a","i","z">>,
                 <<"m","o","d","u","l","o">>,
                 <<"R","E","S","T","O">>,
                 <<"s","e","n","o">> }

\* operands the agents pass to calculadora
Operands == (-MaxOperand)..MaxOperand

\* pieces of the queries the agents pass to buscar_web_simulada
Fragments == { <<"P","y","t","h","o","n">>,
               <<"R","A","G">>,
               <<"l","l","a","m","a">>,
               <<" ","i","n","d","e","x">>,
               <<"p","h","i">>,
               <<"m","u","l","t","i">>,
               <<"a","g","e","n","t","e">>,
               <<"s">>,
               <<"z","z">>,
               <<"G","P","U">> }

RECURSIVE QueriesOf(_)
QueriesOf(n) ==
    IF n = 0 THEN { << >> }
    ELSE LET prev == QueriesOf(n - 1) IN
         prev \cup {q \o f : q \in prev, f \in Fragments}

Queries == QueriesOf(MaxFrag)

\* a session whose tools are called: the retriever is the real one or the
\* simulated one, as crear_indice left it
InitTools ==
    /\ argv = << >>
    /\ model_name = MainModelo(argv)
    /\ llm = None /\ settings_llm = None /\ indice = None
    /\ recuperador \in {"real", "stub"}
    /\ coordinador = None
    /\ herramientas = << >>
    /\ objs = << >>
    /\ files = {} /\ files0 = files
    /\ installed = {}
    /\ steps = << >>
    /\ init_result = "none" /\ pending = "none" /\ exit_status = -1
    /\ last = NoEvent /\ printed = {} /\ nswitch = 0
    /\ tool_call = NoCall
    /\ typed = << >>
    /\ verif_call = NoCall
    /\ pc = "tools"

\* The tool functions keep no state between calls, so a behaviour of this
\* specification is one call: ToolIdle holds until a tool was called.
ToolIdle == pc = "tools" /\ tool_call = NoCall

ToolFrame ==
    UNCHANGED << pc, argv, model_name, llm, settings_llm, indice, recuperador,
                 coordinador, herramientas, objs, files, files0, installed,
                 steps, init_result, pending, exit_status, last, printed,
                 nswitch, typed, verif_call >>

CallCalculadora ==
    /\ ToolIdle
    /\ \E operacion \in Operaciones, a \in Operands, b \in Operands :
          tool_call' = [tool |-> "calculadora", operacion |-> operacion,
                        a |-> a, b |-> b, ret |-> calculadora(operacion, a, b)]
    /\ ToolFrame

CallBuscarWeb ==
    /\ ToolIdle
    /\ \E query \in Queries :
          tool_call' = [tool |-> "buscar_web_simulada", query |-> query,
                        ret |-> buscar_web_simulada(query)]
    /\ ToolFrame

CallBuscarConocimiento ==
    /\ ToolIdle
    /\ \E query \in Queries :
          \E res \in RetrieveOutcomes(recuperador, query) :
             tool_call' = [tool |-> "buscar_conocimiento",
                           recuperador |-> recuperador, res |-> res,
                           ret |-> buscar_conocimiento(res)]
    /\ ToolFrame

NextTools == CallCalculadora \/ CallBuscarWeb \/ CallBuscarConocimiento

SpecTools == InitTools /\ [][NextTools]_vars

(* ------------------- verificar_modelo on its own ----------------------- *)
\* the names verificar_modelo is called with: model_name as main or the
\* 'cambiar' branch set it
ModelNames == { m_phi, m_phi3, <<"P","h","i","3">>, m_mistral, m_nope, << >> }

\* the models the runtime may hold
RuntimeModels == { m_phi3, m_mistral, m_nope }

InitVerificar ==
    /\ argv = << >>
    /\ model_name \in ModelNames
    /\ llm = None /\ settings_llm = None /\ indice = None
    /\ recuperador = "none" /\ coordinador = None
    /\ herramientas = << >>
    /\ objs = << >>
    /\ files = {} /\ files0 = files
    /\ installed \in SUBSET RuntimeModels
    /\ steps = << >>
    /\ init_result = "none" /\ pending = "none" /\ exit_status = -1
    /\ last = NoEvent /\ printed = {} /\ nswitch = 0
    /\ tool_call = NoCall
    /\ typed = << >>
    /\ verif_call = NoCall
    /\ pc = "verificar"

\* one call of verificar_modelo: `ollama list`, and `ollama pull` when the
\* name is not in its output
CallVerificarModelo ==
    /\ pc = "verificar"
    /\ \E listOut \in ListOuts :
       \E pullOut \in PullOutsFor(model_name, installed, listOut) :
          LET r == verificar_modelo(model_name, installed, listOut, pullOut) IN
          /\ verif_call' = [tool |-> "verificar_modelo", name |-> model_name,
                            inst |-> installed, listOut |-> listOut,
                            pullOut |-> pullOut, pulls |-> r.pulls,
                            ret |-> r.ret]
          /\ installed' = r.installed
          /\ printed' = {r.msg}
    /\ pc' = "verificado"
    /\ UNCHANGED << argv, model_name, llm, settings_llm, indice, recuperador,
                    coordinador, herramientas, objs, files, files0, steps,
                    init_result, pending, exit_status, last, nswitch,
                    tool_call, typed >>

NextVerificar == CallVerificarModelo

SpecVerificar == InitVerificar /\ [][NextVerificar]_vars

(* ================== properties of the tool functions =================== *)
ErrorHeads == { "Error: No se puede dividir por cero",
                "Error: No se puede calcular raiz par de un numero negativo",
                "Error en la calculadora",
                "Error al buscar en la base de conocimientos" }

NotFoundHeads == { "No se encontro informacion sobre",
                   "No se encontro informacion relevante en la base de conocimientos." }

\* the calls of calculadora whose arithmetic cannot be carried out
CalcFails(operacion, a, b) ==
    LET o == Lower(operacion) IN
    \/ o \in {op_division, op_raiz, op_modulo, op_resto} /\ b = 0
    \/ o = op_raiz /\ a < 0 /\ b % 2 = 0
    \/ o \in {op_potencia} /\ a = 0 /\ b < 0
    \/ o = op_raiz /\ a = 0 /\ b < 0

\* C6: no call of buscar_conocimiento, calculadora or buscar_web_simulada
\* raises: each returns a string, and a call that fails (b = 0 for division,
\* raiz, modulo and resto, an even root of a negative number, a zero base
\* with a negative exponent, a retriever whose retrieve raises) returns an
\* error-describing string.
ToolsNeverRaise ==
    tool_call.tool # "none" =>
        /\ ~tool_call.ret.raised
        /\ tool_call.ret.value.head # "none"
        /\ tool_call.tool = "calculadora"
              /\ CalcFails(tool_call.operacion, tool_call.a, tool_call.b)
           => tool_call.ret.value.head \in ErrorHeads
        /\ tool_call.tool = "buscar_conocimiento" /\ tool_call.res.raised
           => tool_call.ret.value.head \in ErrorHeads
        /\ tool_call.tool = "buscar_web_simulada"
           => tool_call.ret.value.head \in NotFoundHeads \cup {""}

\* a modulo by zero was asked for and came back as the calculator's error string
ModuloByZeroReturned ==
    /\ tool_call.tool = "calculadora"
    /\ Lower(tool_call.operacion) = op_resto
    /\ tool_call.b = 0
    /\ ~tool_call.ret.raised
    /\ tool_call.ret.value.head = "Error en la calculadora"

\* C7: 'division' in any letter case with b = 0 returns the division-by-zero
\* error string, and 'raiz' with a < 0 and an even b returns the
\* even-root-of-negative error string; neither raises nor returns a result.
CalculadoraRejectsInvalidOperands ==
    tool_call.tool = "calculadora" =>
        /\ Lower(tool_call.operacion) = op_division /\ tool_call.b = 0
           => tool_call.ret = Returned(CalcMsg("Error: No se puede dividir por cero"))
        /\ tool_call.operacion = op_raiz /\ tool_call.a < 0 /\ tool_call.b % 2 = 0
           => tool_call.ret =
                 Returned(CalcMsg("Error: No se puede calcular raiz par de un numero negativo"))

\* 'DIVISION' of a non-zero number by zero was rejected
UpperCaseDivisionByZeroRejected ==
    /\ tool_call.tool = "calculadora"
    /\ tool_call.operacion = <<"D","I","V","I","S","I","O","N">>
    /\ tool_call.a = MaxOperand /\ tool_call.b = 0
    /\ tool_call.ret.value.head = "Error: No se puede dividir por cero"

\* keyword kw occurs in q, letter case of q ignored
Occurs(kw, q) ==
    \E p \in 1..Len(q) :
        /\ p + Len(kw) - 1 <= Len(q)
        /\ \A j \in 1..Len(kw) : LowerChar(q[p + j - 1]) = kw[j]

Matching(q) == {i \in 1..Len(base_keywords) : Occurs(base_keywords[i], q)}

FactIndex(f) == CHOOSE i \in 1..Len(base_facts) : base_facts[i] = f

\* C8: buscar_web_simulada returns the facts of exactly the keywords that
\* occur in the query (case-insensitively), each once, in the mapping's
\* order, separated by newlines; it returns the not-found string exactly
\* when no keyword occurs.
WebSearchReturnsMatchingFacts ==
    tool_call.tool = "buscar_web_simulada" =>
        LET q == tool_call.query
            M == Matching(q)
            r == tool_call.ret.value
            odd == {k \in 1..Len(r.toks) : k % 2 = 1}
        IN  /\ ~tool_call.ret.raised
            /\ (r.head = "No se encontro informacion sobre") <=> (M = {})
            /\ M = {} => r.toks = q
            /\ M # {} =>
                  /\ Len(r.toks) = 2 * Cardinality(M) - 1
                  /\ \A k \in 1..Len(r.toks) : k % 2 = 0 => r.toks[k] = "\n"
                  /\ \A k \in odd : \E i \in M : r.toks[k] = base_facts[i]
                  /\ \A i \in M : Cardinality({k \in odd : r.toks[k] = base_facts[i]}) = 1
                  /\ \A k1, k2 \in odd :
                        k1 < k2 => FactIndex(r.toks[k1]) < FactIndex(r.toks[k2])

\* a mixed-case query naming two keywords was answered with both facts
TwoFactsFromMixedCaseQuery ==
    /\ tool_call.tool = "buscar_web_simulada"
    /\ tool_call.query = <<"P","y","t","h","o","n","R","A","G">>
    /\ tool_call.ret.value.toks = << "fact:python", "\n", "fact:rag" >>

(* ===================== properties of the session ======================= *)
\* the three steps whose failure makes inicializar return False
GatingSteps == {"verificar_modelo", "configurar_modelo", "crear_agentes"}

\* step name ran and returned ret
StepReturned(name, ret) ==
    \E i \in 1..Len(steps) : steps[i].name = name /\ steps[i].ret = ret

\* main is past inicializar
StartupOver ==
    pc \in {"init_returned", "demo", "repl", "unwinding", "main_returned", "exited"}

\* C1: the demo and the REPL run only after inicializar returned True, that
\* is after verificar_modelo, configurar_modelo and crear_agentes returned
\* True; when one of the three returns False, inicializar returns False at
\* that step, no later step runs, the REPL is never started and the process
\* exits with status 1.
ReplOnlyAfterSuccessfulInit ==
    /\ (pc \in {"demo", "repl", "main_returned"} \/ last # NoEvent)
       => /\ init_result = "true"
          /\ \A name \in GatingSteps : StepReturned(name, "true")
    /\ \A i \in 1..Len(steps) :
          (steps[i].name \in GatingSteps /\ steps[i].ret = "false")
          => /\ i = Len(steps)
             /\ init_result = "false"
             /\ pc \in {"init_returned", "unwinding", "exited"}
             /\ last = NoEvent
             /\ pc = "unwinding" => pending = "SystemExit(1)"
             /\ pc = "exited" => exit_status = 1

\* configurar_modelo failed and the process ended with status 1 without a REPL
ConfigFailureExitedWithOne ==
    /\ pc = "exited" /\ exit_status = 1
    /\ Len(steps) = 2 /\ steps[2] = Step("configurar_modelo", "false")
    /\ last = NoEvent

\* C2 (as claimed): once the seeding step has been started, startup does not
\* end before crear_agentes has run, whatever the seeding step and the index
\* build do; after a failed index build the simulated retriever is in place.
SeedingAndIndexFailuresDoNotAbort ==
    /\ (StartupOver /\ Len(steps) >= 3)
       => /\ Len(steps) = 6
          /\ steps[5].name = "definir_herramientas"
          /\ steps[6].name = "crear_agentes"
    /\ StepReturned("crear_indice", "false") => recuperador = "stub"

\* C3 (as claimed): with the simulated retriever in place, buscar_conocimiento
\* returns the placeholder chunk's text, joined, and not an error string.
StubRetrieverAnswersWithPlaceholder ==
    (tool_call.tool = "buscar_conocimiento" /\ tool_call.recuperador = "stub")
    => /\ ~tool_call.ret.raised
       /\ tool_call.ret.value = Str("", << stub_chunk.text >>)

FailedSwitch == {"verificar_fallo", "configurar_fallo", "agentes_fallo"}

FailureMessages == {"No se pudo cambiar al modelo", "Error al crear los agentes"}

\* C4: a 'cambiar' command that fails leaves self.coordinador the agent it
\* was, prints a failure message and goes on with the loop; a query typed
\* next is handled by that same coordinator.
FailedSwitchKeepsTopology ==
    [][ /\ (nswitch' = nswitch + 1 /\ last'.outcome \in FailedSwitch)
           => /\ coordinador' = coordinador
              /\ last'.before = coordinador
              /\ coordinador' # None
              /\ objs'[coordinador'] = objs[coordinador]
              /\ pc' = "repl"
              /\ printed' \cap FailureMessages # {}
        /\ (last.kind = "cambiar" /\ last.outcome \in FailedSwitch
              /\ last'.kind = "consulta")
           => /\ last'.coord = last.before
              /\ last'.coord # None ]_vars

\* the agents could not be rebuilt and the session still holds its coordinator
SwitchFailedAtAgents ==
    /\ pc = "repl"
    /\ last.kind = "cambiar" /\ last.outcome = "agentes_fallo"
    /\ coordinador = last.before /\ coordinador # None
    /\ "Error al crear los agentes" \in printed

\* the specialist agents behind the tools of coordinator c in store o
Specialists(o, c) == UNION {o[t].tools : t \in o[c].tools}

\* C5: once inicializar has returned True the session holds exactly one
\* coordinator, never None; no command changes an object that exists; a
\* model switch that succeeds makes self.coordinador a new agent whose two
\* specialists are new agents too.
OneCoordinatorRebuiltNotMutated ==
    [][ /\ init_result' = "true"
           => /\ coordinador' \in 1..Len(objs')
              /\ objs'[coordinador'].cls = "ReActAgent"
              /\ objs'[coordinador'].role = "coordinador"
        /\ Len(objs') >= Len(objs)
        /\ \A i \in 1..Len(objs) : objs'[i] = objs[i]
        /\ (nswitch' = nswitch + 1 /\ last'.outcome = "ok")
           => /\ coordinador' > Len(objs)
              /\ Cardinality(Specialists(objs', coordinador')) = 2
              /\ \A a \in Specialists(objs', coordinador') :
                    /\ a > Len(objs)
                    /\ objs'[a].cls = "ReActAgent"
                    /\ objs'[a].llm = llm' ]_vars

\* a model switch succeeded and the session holds another coordinator
SwitchReplacedCoordinator ==
    /\ pc = "repl"
    /\ last.kind = "cambiar" /\ last.outcome = "ok"
    /\ coordinador # last.before /\ last.before # None
    /\ objs[coordinador].llm = llm /\ objs[last.before].llm # llm

\* C9: the exit status is 1 when inicializar returned False, 1 when an
\* Exception reached the entry point, 0 when the REPL ended by an exit
\* command or a keyboard interrupt at the prompt, and never anything else.
ExitStatusRule ==
    /\ exit_status \in {-1, 0, 1}
    /\ pc = "exited" <=> exit_status # -1
    /\ pc = "exited"
       => /\ init_result = "false" => exit_status = 1
          /\ pending = "Exception" => exit_status = 1
          /\ (last.kind = "salir" \/ (last.kind = "input" /\ last.outcome = "interrupt"))
             => exit_status = 0

\* an I/O error of the seeding step reached the entry point: status 1
UncaughtErrorExitedWithOne ==
    /\ pc = "exited" /\ exit_status = 1
    /\ pending = "Exception" /\ init_result = "none"

FourExamples == {<< examples[i], "example" >> : i \in 1..Len(examples)}

\* C10 (as claimed): after a startup that began with an empty data_dir
\* exactly the four example files exist, and one that began with a
\* non-empty data_dir has the files it began with.
SeedingAfterAnyStartup ==
    StartupOver => IF files0 = {} THEN files = FourExamples ELSE files = files0

\* C10 (amended): the seeding step writes the four example files iff
\* data_dir is empty when it runs. A startup that began with an empty
\* data_dir and whose seeding step returned has exactly the four files,
\* one that ends before the seeding step has none; with a non-empty
\* data_dir a startup, and a repeated seeding, leaves every file as it is.
SeedingWritesIffEmpty ==
    /\ files0 # {} => files = files0
    /\ (files0 = {} /\ StepReturned("crear_documentos_ejemplo", "none"))
       => files = FourExamples
    /\ (files0 = {} /\ Len(steps) < 3) => files = {}
    /\ files # {}
       => \A failAt \in 1..(Len(examples) + 1) :
             crear_documentos_ejemplo(files, failAt) = [raised |-> FALSE, files |-> files]

\* a startup that began with an empty data_dir reached the REPL with the
\* four example files written
SeededFromEmptyDir ==
    /\ files0 = {} /\ pc = "repl"
    /\ files = FourExamples /\ Cardinality(files) = 4

\* the order in which inicializar calls the construction methods
StartupOrder == << "verificar_modelo", "configurar_modelo",
                   "crear_documentos_ejemplo", "crear_indice",
                   "definir_herramientas", "crear_agentes" >>

\* C11: the startup steps run in the fixed order verificar_modelo,
\* configurar_modelo, crear_documentos_ejemplo, crear_indice,
\* definir_herramientas, crear_agentes: the i-th step that ran is the i-th
\* of the order, every step before the last one that ran has returned, the
\* demo and the REPL are reached with all six steps run, none skipped, and
\* with crear_agentes returning True.
StartupInFixedOrder ==
    /\ Len(steps) <= Len(StartupOrder)
    /\ \A i \in 1..Len(steps) : steps[i].name = StartupOrder[i]
    /\ \A i \in 1..(Len(steps) - 1) :
          /\ steps[i].ret # "raised"
          /\ steps[i].name \in GatingSteps => steps[i].ret = "true"
    /\ pc \in {"demo", "repl"}
       => /\ Len(steps) = Len(StartupOrder)
          /\ steps[Len(steps)] = Step("crear_agentes", "true")
    /\ pc = "created" <=> steps = << >>
    /\ pc = "model_verified" => Len(steps) = 1
    /\ pc = "model_configured" => Len(steps) = 2
    /\ pc = "documents_ready" => Len(steps) = 3
    /\ pc = "index_ready" => Len(steps) = 4
    /\ pc = "tools_ready" => Len(steps) = 5

\* the REPL was reached through all six steps although crear_indice
\* returned False
RunningAfterSixStepsWithFailedIndex ==
    /\ pc = "repl"
    /\ Len(steps) = 6
    /\ steps[4] = Step("crear_indice", "false")
    /\ steps[6] = Step("crear_agentes", "true")

\* C12 (as claimed): verificar_modelo is attempted only after the
\* environment bootstrap, verificar_ollama, ran in the same startup and
\* returned True.
BootstrapBeforeModelVerification ==
    \A i \in 1..Len(steps) :
       steps[i].name = "verificar_modelo"
       => \E j \in 1..(i - 1) : steps[j] = Step("verificar_ollama", "true")

\* the tools the specialists of coordinator c hold in store o
SpecialistTools(o, c) == UNION {o[a].tools : a \in Specialists(o, c)}

\* C13 (as claimed): a 'cambiar' command either replaces the client, the
\* tools, both specialists and the coordinator by new objects built for the
\* new model, or changes none of them; in both cases the index and the
\* retriever stay the ones crear_indice built at startup.
SwitchIsAllOrNothing ==
    [][ nswitch' = nswitch + 1
        => /\ \/ /\ llm' > Len(objs) /\ settings_llm' = llm'
                 /\ objs'[llm'].model = model_name'
                 /\ coordinador' > Len(objs)
                 /\ objs'[coordinador'].llm = llm'
                 /\ \A a \in Specialists(objs', coordinador') :
                       a > Len(objs) /\ objs'[a].llm = llm'
                 /\ \A t \in SpecialistTools(objs', coordinador') : t > Len(objs)
              \/ /\ llm' = llm /\ settings_llm' = settings_llm
                 /\ coordinador' = coordinador
                 /\ objs' = objs
           /\ indice' = indice /\ recuperador' = recuperador ]_vars

\* the agents in use: the coordinator c of store o and its two specialists
AgentsInUse(o, c) == {c} \cup Specialists(o, c)

\* C14: the 'cambiar' branch assigns model_name before it verifies the
\* model: after every switch, failed or interrupted ones included,
\* model_name is the requested name; after a failed switch the coordinator
\* and its specialists are the agents they were, bound to the client they
\* were bound to; and 'status' shows model_name.
FailedSwitchLeavesRequestedName ==
    [][ /\ nswitch' = nswitch + 1 => model_name' = last'.modelo
        /\ (nswitch' = nswitch + 1 /\ last'.outcome \in FailedSwitch)
           => /\ model_name' = last'.modelo
              /\ coordinador' = coordinador
              /\ AgentsInUse(objs', coordinador') = AgentsInUse(objs, coordinador)
              /\ \A a \in AgentsInUse(objs', coordinador') :
                    /\ objs'[a] = objs[a]
                    /\ objs'[a].llm \in 1..Len(objs)
                    /\ objs'[objs'[a].llm] = objs[objs[a].llm]
        /\ (last'.kind = "status" /\ last' # last)
           => last'.modelo = model_name' /\ model_name' = model_name ]_vars

\* 'status' shows the unavailable model that a failed switch asked for,
\* while the agents in use are bound to the client of phi3
StatusShowsUnavailableModel ==
    /\ pc = "repl"
    /\ last.kind = "status" /\ last.modelo = m_nope
    /\ model_name = m_nope
    /\ m_nope \notin installed
    /\ \A a \in AgentsInUse(objs, coordinador) : objs[objs[a].llm].model = m_phi3

\* the loop has ended: main returned or the process exited
LoopEnded == pc \in {"main_returned", "exited"}

\* C15 (as claimed): a keyboard interrupt at the prompt ends the loop, and
\* one received while responder processes a query is reported as an error
\* and the loop goes on with the next prompt.
InterruptDuringQueryReturnsToPrompt ==
    /\ (last.kind = "input" /\ last.outcome = "interrupt") => LoopEnded
    /\ (last.kind = "consulta" /\ last.outcome = "KeyboardInterrupt")
       => /\ pc = "repl"
          /\ printed \cap {"Error", "Error al procesar la consulta"} # {}

\* C15 (amended): a keyboard interrupt ends the loop both at the prompt and
\* while responder processes a query, since responder catches Exception
\* only; the goodbye is printed and the process exits with status 0. An
\* Exception of the chat call is returned by responder as an error string,
\* and the loop goes on with the next prompt.
KeyboardInterruptEndsLoop ==
    /\ (last.kind = "input" /\ last.outcome = "interrupt")
       => LoopEnded /\ (pc = "exited" => exit_status = 0)
    /\ (last.kind = "consulta" /\ last.outcome = "KeyboardInterrupt")
       => /\ LoopEnded
          /\ pc = "main_returned" => printed = {"Hasta luego!"}
          /\ pc = "exited" => exit_status = 0
    /\ (last.kind = "consulta" /\ last.outcome = "Error al procesar la consulta")
       => pc = "repl" /\ printed = {"Error al procesar la consulta"}
    /\ pc = "repl"
       => /\ responder(coordinador, "interrupt") = Raised("KeyboardInterrupt")
          /\ ~responder(coordinador, "exception").raised

\* a query was interrupted from the keyboard and the process exited with 0
QueryInterruptedProcessExited ==
    /\ last.kind = "consulta" /\ last.outcome = "KeyboardInterrupt"
    /\ last.coord = coordinador /\ coordinador # None
    /\ pc = "exited" /\ exit_status = 0

ExitSynonyms == { <<"s","a","l","i","r">>, <<"e","x","i","t">>,
                  <<"q","u","i","t">>, <<"q">> }

HelpSynonyms == { <<"a","y","u","d","a">>, <<"h","e","l","p">>, <<"h">>, <<"?">> }

\* the command a line names, compared in lower case, or "consulta"
CommandOf(line) ==
    LET l == [i \in 1..Len(line) |-> LowerChar(line[i])] IN
    IF l \in ExitSynonyms THEN "salir"
    ELSE IF l \in HelpSynonyms THEN "ayuda"
    ELSE IF l = <<"m","o","d","e","l","o","s">> THEN "modelos"
    ELSE IF l = <<"s","t","a","t","u","s">> THEN "status"
    ELSE IF Len(l) >= 8 /\ SubSeq(l, 1, 8) = <<"c","a","m","b","i","a","r"," ">>
    THEN "cambiar"
    ELSE "consulta"

\* C16: every line read at the prompt is handled in exactly one way. An
\* exit synonym, in any case, ends the loop; a help synonym, 'modelos',
\* 'status' or a line starting with 'cambiar ' runs that command, and none
\* of these is passed to the coordinator; every other line, an unrecognized
\* command included, is passed to the coordinator as a query and the loop
\* goes on, unless a keyboard interrupt arrives while the line is handled.
EveryLineHandledOneWay ==
    /\ last.kind \in {"none", "input"} <=> typed = << >>
    /\ typed # << >>
       => /\ last.kind = CommandOf(typed)
          /\ last.kind = "salir" => LoopEnded
          /\ last.kind \in {"ayuda", "modelos", "status"} => pc = "repl"
          /\ last.kind = "cambiar"
             => IF last.outcome = "interrupt" THEN LoopEnded ELSE pc = "repl"
          /\ last.kind \in {"salir", "ayuda", "modelos", "status", "cambiar"}
             => last.coord = None /\ tool_call = NoCall
          /\ last.kind = "consulta"
             => /\ last.coord = coordinador /\ last.coord # None
                /\ IF last.outcome = "KeyboardInterrupt" THEN LoopEnded
                   ELSE pc = "repl" /\ printed = {last.outcome}

\* 'salir ' with a trailing blank is no exit synonym: it went to the
\* coordinator as a query and the loop goes on
UnrecognizedCommandWentToCoordinator ==
    /\ typed = <<"s","a","l","i","r"," ">>
    /\ last.kind = "consulta" /\ last.coord = coordinador
    /\ last.outcome = "respuesta"
    /\ pc = "repl"

(* ================== properties of verificar_modelo ===================== *)
\* what `ollama list` wrote to stdout in the call c
ListOutput(c) == IF c.listOut = "ok" THEN ListStdout(c.inst) ELSE << >>

\* name occurs in out, character by character
SubstringOf(name, out) ==
    \E p \in 0..(Len(out) - Len(name)) :
        \A j \in 1..Len(name) : out[p + j] = name[j]

\* C17: verificar_modelo returns True without a pull exactly when
\* model_name is a substring of the output of `ollama list`; otherwise it
\* issues one pull, of model_name, and returns True iff the pull exits with
\* code 0; it never issues a second pull; and when a subprocess call raises
\* an Exception it returns False.
PresentIffListedElseOnePull ==
    verif_call # NoCall =>
       LET c == verif_call
           raised == c.listOut = "raise" \/ (c.pulls # << >> /\ c.pullOut = "raise")
       IN  /\ c.listOut # "raise"
              => /\ (c.ret /\ c.pulls = << >>) <=> SubstringOf(c.name, ListOutput(c))
                 /\ ~SubstringOf(c.name, ListOutput(c))
                    => /\ c.pulls = << c.name >>
                       /\ c.ret <=> c.pullOut = "ok"
           /\ Len(c.pulls) <= 1
           /\ raised => ~c.ret
           /\ c.listOut = "raise" => c.pulls = << >>
           /\ installed = IF c.pulls # << >> /\ c.ret THEN c.inst \cup {c.name}
                                                      ELSE c.inst
           /\ c.ret <=> printed \subseteq {"Modelo ya esta disponible",
                                          "Modelo descargado correctamente"}

\* phi is not installed, but it is a substring of the line of phi3: the
\* call returned True and pulled nothing
SubstringOfAnotherModelCountsAsPresent ==
    /\ verif_call # NoCall
    /\ verif_call.name = m_phi /\ verif_call.inst = {m_phi3}
    /\ verif_call.listOut = "ok"
    /\ verif_call.ret /\ verif_call.pulls = << >>
    /\ m_phi \notin installed

====
